---- MODULE Spec2Model ----
(***************************************************************************)
(* Model of the SimConnect telemetry proxy:                                *)
(*   src/server/simconnect.py  connect_to_simconnect, update_aircraft_data, *)
(*                             start_simconnect_server and the module state *)
(*   src/server.py             get_aircraft_data (the Flask route)          *)
(*                                                                         *)
(* Threads: Flask request threads (Handlers) run get_aircraft_data; each    *)
(* threading.Thread created at simconnect.py:114 is an Updater running      *)
(* update_aircraft_data.  A thread's position is pc[thr]; pc values carry   *)
(* the source line they stand at (c.. connect_to_simconnect, u..            *)
(* update_aircraft_data, s.. start_simconnect_server, h.. server.py).       *)
(*                                                                         *)
(* Atomicity: one step is one access to shared state that the interpreter   *)
(* performs as a single operation (a global load or store, a dict.update    *)
(* call on a dict with str keys, a lock acquire), together with the         *)
(* thread-local statements that follow it up to the next shared access.     *)
(* Statements that read a global and later store it (simconnect.py:36-37,   *)
(* 112-115) are therefore several steps.                                    *)
(*                                                                         *)
(* Units, all integers: latitude and longitude in 1e-6 degree, heading in   *)
(* 1e-4 degree, altitude in 1e-4 metre (feet as read), the simulated        *)
(* parameter t in 1e-4 radian.  An optional value (Python None, an absent   *)
(* dict key) is the empty sequence, a present one <<v>>.                    *)
(***************************************************************************)
EXTENDS Integers, Sequences, FiniteSets, TLC

\* ---------------------------------------------------------------- bounds
NumHandlers == 2
MaxUpdaters == 2
MaxTicks == 2
MaxRequests == 3
\* iterations of the one loop of the simulated-flight model (more than a
\* full turn of the circle, 2*pi / 0.05 = 125.7 ticks)
MaxSimTicks == 130

\* ------------------------------------------------------------- constants
center_lat == 37618800
center_long == -122375400
radius == 10000
TStep == 500
SimAltitude == 1000000
FtToM == 3048
\* pi and its multiples in 1e-4 rad, for math.cos and math.sin
Pi == 31416
TwoPi == 62832
HalfPi == 15708
QuarterPi == 7854

None == << >>
Some(x) == <<x>>

Handlers == 1..NumHandlers
Updaters == 101..(100 + MaxUpdaters)
Threads == Handlers \cup Updaters

Statuses == {"connect", "track", "other"}
\* status[h] while no request is in flight on h
NoStatus == "-"

Fields == {"latitude", "longitude", "altitude", "heading", "connected", "last_update"}
Numeric == {"latitude", "longitude", "altitude", "heading"}

NoReading == [lat |-> None, lon |-> None, alt_ft |-> None, heading |-> None]

\* What the four aq.get calls of one tick may hand back (each null or a
\* value): nothing, everything, and a mix.
LiveReadings ==
    { NoReading,
      [lat |-> Some(47000000), lon |-> Some(8000000), alt_ft |-> Some(1000),
       heading |-> Some(2700000)],
      [lat |-> None, lon |-> Some(8000000), alt_ft |-> None,
       heading |-> Some(2700000)] }

VARIABLES
    libAvail,       \* SimConnect is not None (simconnect.py:8-12)
    aircraft_data,  \* the module-level dict (simconnect.py:15-20)
    sm,             \* the module-level SimConnect instance, or None
    data_thread,    \* the module-level Thread, or None
    data_lock,      \* holder of threading.Lock(), or None
    tstate,         \* per Thread object: "unborn", "created", "alive"
    pc,             \* per thread: position in the code
    status,         \* per handler: the <status> path parameter
    aq,             \* per thread: connect_to_simconnect's aq / return value
    t,              \* per updater: local t of update_aircraft_data
    reading,        \* per updater: locals lat, lon, alt_ft, heading
    tick,           \* per updater: loop iterations begun
    clock,          \* time.time()
    smCreated,      \* history: SimConnect() constructions that succeeded
    tag,            \* history: per snapshot field, <<thread, tick>> of its last write
    errored,        \* history: per updater, a live query has raised
    tracked,        \* history: "track" calls that have returned
    cw,             \* history: per thread, its connect call wrote the snapshot
    requests        \* history: requests received

vars == <<libAvail, aircraft_data, sm, data_thread, data_lock, tstate, pc, status,
          aq, t, reading, tick, clock, smCreated, tag, errored, tracked, cw, requests>>

shared == <<libAvail, aircraft_data, sm, data_thread, data_lock, tstate, clock,
            smCreated, tag, requests>>

\* ------------------------------------------------------- pure functions
\* cos and sin of x (1e-4 rad), scaled by 1e4: the argument is reduced to
\* [0, pi/4] by the period and the symmetries of the circle, and the Taylor
\* polynomial is taken there (every product stays within 32 bits).
Sq(x) == (x * x) \div 10000
CosSeries(x) ==
    10000 - Sq(x) \div 2 + Sq(Sq(x)) \div 24 - ((Sq(x) * Sq(Sq(x))) \div 10000) \div 720
SinSeries(x) ==
    x - ((x * Sq(x)) \div 10000) \div 6
      + ((((x * Sq(x)) \div 10000) * Sq(x)) \div 10000) \div 120
\* cos on [0, pi/2]
CosQuarter(z) == IF z <= QuarterPi THEN CosSeries(z) ELSE SinSeries(HalfPi - z)
\* cos on [0, pi]
CosHalf(z) == IF z <= HalfPi THEN CosQuarter(z) ELSE 0 - CosQuarter(Pi - z)
CosE4(x) == CosHalf(IF (x % TwoPi) <= Pi THEN x % TwoPi ELSE TwoPi - (x % TwoPi))
SinE4(x) == CosE4(x - HalfPi)

\* math.degrees(x), x in 1e-4 rad, result in 1e-4 degree.
Degrees(x) == (x * 5730) \div 100

SimLatitude(x) == center_lat + (radius * CosE4(x)) \div 10000
SimLongitude(x) == center_long + (radius * SinE4(x)) \div 10000
\* 90 + math.degrees(t) % 360 : % binds tighter than +.
SimHeading(x) == 900000 + (Degrees(x) % 3600000)

\* variant of OrZero: the reading stored as it came
OrZeroRaw(v) == v

\* `v if v else 0.0`
OrZero(v) == IF v = None THEN Some(0) ELSE v
\* `alt_ft * 0.3048 if alt_ft else 0.0`
AltMetres(v) == IF v = None THEN Some(0) ELSE Some(v[1] * FtToM)

\* The dict literal of simconnect.py:15-20; "connected" and "last_update" are
\* absent keys until first written.
InitData ==
    [latitude |-> Some(0), longitude |-> Some(0), altitude |-> Some(0),
     heading |-> Some(0), connected |-> None, last_update |-> None]

Init ==
    /\ libAvail \in BOOLEAN
    /\ aircraft_data = InitData
    /\ sm = None
    /\ data_thread = None
    /\ data_lock = None
    /\ tstate = [u \in Updaters |-> "unborn"]
    /\ pc = [thr \in Threads |-> IF thr \in Handlers THEN "idle" ELSE "unborn"]
    /\ status = [h \in Handlers |-> NoStatus]
    /\ aq = [thr \in Threads |-> None]
    /\ t = [u \in Updaters |-> 0]
    /\ reading = [u \in Updaters |-> NoReading]
    /\ tick = [u \in Updaters |-> 0]
    /\ clock = 0
    /\ smCreated = 0
    /\ tag = [f \in Fields |-> <<0, 0>>]
    /\ errored = [u \in Updaters |-> FALSE]
    /\ tracked = 0
    /\ cw = [thr \in Threads |-> FALSE]
    /\ requests = 0

TickOf(thr) == IF thr \in Updaters THEN tick[thr] ELSE 0

RECURSIVE SumTicks(_)
SumTicks(S) ==
    IF S = {} THEN 0
    ELSE LET u == CHOOSE x \in S : TRUE IN tick[u] + SumTicks(S \ {u})

\* loop iterations begun so far, over all Updaters
TicksBegun == SumTicks(Updaters)

\* dict.update(upd) / aircraft_data[key] = value by thread thr: one call, the
\* keys of upd replaced together.
WriteSnapshot(thr, upd) ==
    /\ aircraft_data' = [f \in Fields |->
                            IF f \in DOMAIN upd THEN upd[f] ELSE aircraft_data[f]]
    /\ tag' = [f \in Fields |->
                  IF f \in DOMAIN upd THEN <<thr, TickOf(thr)>> ELSE tag[f]]

Goto(thr, label) == pc' = [pc EXCEPT ![thr] = label]

\* ------------------------------------------- connect_to_simconnect (28-51)
\* Where connect_to_simconnect returns to: simconnect.py:109 and on to
\* server.py:17 in a request thread, simconnect.py:57-66 in an Updater.
ReturnPc(thr) == IF thr \in Handlers THEN "h17" ELSE "u66"

\* 31-33: `if SimConnect is None: return None`, else on to line 36
EntryPc(thr) == IF libAvail THEN "c36" ELSE ReturnPc(thr)

\* variant of ConnectExcept: the handler re-raises to the caller
ConnectExceptReraise(thr) ==
    /\ Goto(thr, "raised")
    /\ UNCHANGED aq

\* 49-51: `except Exception: ... return None`
ConnectExcept(thr) ==
    /\ Goto(thr, ReturnPc(thr))
    /\ aq' = [aq EXCEPT ![thr] = None]

\* variant of SmIsNone: the guard dropped, every call constructs
SmIsNoneAlways == TRUE

\* 36: `if sm is None:`
SmIsNone == sm = None

C36(thr) ==
    /\ pc[thr] = "c36"
    /\ Goto(thr, IF SmIsNone THEN "c37" ELSE "c44")
    /\ UNCHANGED <<shared, status, aq, t, reading, tick, errored, tracked, cw>>

\* 37: `sm = SimConnect()`: the constructor returns a new instance or raises.
C37(thr) ==
    /\ pc[thr] = "c37"
    /\ \/ /\ sm' = Some(smCreated + 1)
          /\ smCreated' = smCreated + 1
          /\ Goto(thr, "c44")
          /\ UNCHANGED aq
       \/ /\ ConnectExcept(thr)
          /\ UNCHANGED <<sm, smCreated>>
    /\ UNCHANGED <<requests, libAvail, aircraft_data, data_thread, data_lock, tstate, clock,
                   tag, status, t, reading, tick, errored, tracked, cw>>

\* 41-44: AircraftRequests is None exactly when SimConnect is (8-12), so 41-43
\* never returns past line 31; `aq = AircraftRequests(sm, _time=100)` wraps the
\* instance sm names now, or raises.
C44(thr) ==
    /\ pc[thr] = "c44"
    /\ \/ /\ aq' = [aq EXCEPT ![thr] = sm]
          /\ Goto(thr, "c46")
       \/ ConnectExcept(thr)
    /\ UNCHANGED <<shared, status, t, reading, tick, errored, tracked, cw>>

\* 46: `with data_lock:` entered
C46(thr) ==
    /\ pc[thr] = "c46"
    /\ data_lock = None
    /\ data_lock' = Some(thr)
    /\ Goto(thr, "c47")
    /\ UNCHANGED <<requests, libAvail, aircraft_data, sm, data_thread, tstate, clock, smCreated,
                   tag, status, aq, t, reading, tick, errored, tracked, cw>>

\* variant of ConnectUpdate: the connect call also stamps last_update
ConnectUpdateStamped == [connected |-> Some(TRUE), last_update |-> Some(clock)]

\* 47: `aircraft_data["connected"] = True`
ConnectUpdate == [connected |-> Some(TRUE)]

\* variant of C47: the lock still held when the call returns
C47KeepLock(thr) ==
    /\ pc[thr] = "c47"
    /\ WriteSnapshot(thr, ConnectUpdate)
    /\ cw' = [cw EXCEPT ![thr] = TRUE]
    /\ Goto(thr, ReturnPc(thr))
    /\ UNCHANGED <<requests, libAvail, sm, data_thread, data_lock, tstate, clock, smCreated,
                   status, aq, t, reading, tick, errored, tracked>>

\* 47-48: the write, the lock released on leaving the block, `return aq`
C47(thr) ==
    /\ pc[thr] = "c47"
    /\ WriteSnapshot(thr, ConnectUpdate)
    /\ data_lock' = None
    /\ cw' = [cw EXCEPT ![thr] = TRUE]
    /\ Goto(thr, ReturnPc(thr))
    /\ UNCHANGED <<requests, libAvail, sm, data_thread, tstate, clock, smCreated,
                   status, aq, t, reading, tick, errored, tracked>>

connect_to_simconnect(thr) ==
    \/ C36(thr)
    \/ C37(thr)
    \/ C44(thr)
    \/ C46(thr)
    \/ C47(thr)

\* -------------------------------------------- update_aircraft_data (54-104)
\* variant of LiveBranch: the test of aq dropped, `if sm:`
LiveBranchHandleOnly(u) == sm # None

\* 68: `if sm and aq:`
LiveBranch(u) == sm # None /\ aq[u] # None

\* 66-68: a loop iteration begins and takes its branch (57-64 before the
\* first: t = 0.0 when aq is None)
U66Body(u) ==
    /\ pc[u] = "u66"
    /\ tick' = [tick EXCEPT ![u] = tick[u] + 1]
    /\ Goto(u, IF LiveBranch(u) THEN "u70" ELSE "u88")
    /\ UNCHANGED <<shared, status, aq, t, reading, errored, tracked, cw>>

\* `while True` under the tick budget of the concurrent model
U66(u) == TicksBegun < MaxTicks /\ U66Body(u)

\* `while True` under the tick budget of the simulated-flight model
U66Long(u) == tick[u] < MaxSimTicks /\ U66Body(u)

\* 70-73: the four aq.get calls; any of them may raise (to line 98), each
\* returns null or a value.  They touch only locals, so they are one step.
U70(u) ==
    /\ pc[u] = "u70"
    /\ \/ /\ \E r \in LiveReadings : reading' = [reading EXCEPT ![u] = r]
          /\ Goto(u, "u74")
          /\ UNCHANGED errored
       \/ /\ errored' = [errored EXCEPT ![u] = TRUE]
          /\ Goto(u, "u100")
          /\ UNCHANGED reading
    /\ UNCHANGED <<shared, status, aq, t, tick, tracked, cw>>

\* 74: `with data_lock:` entered
U74(u) ==
    /\ pc[u] = "u74"
    /\ data_lock = None
    /\ data_lock' = Some(u)
    /\ Goto(u, "u75")
    /\ UNCHANGED <<requests, libAvail, aircraft_data, sm, data_thread, tstate, clock, smCreated,
                   tag, status, aq, t, reading, tick, errored, tracked, cw>>

\* 76-83: the dict of a live tick
LiveUpdate(u) ==
    [latitude |-> OrZero(reading[u].lat),
     longitude |-> OrZero(reading[u].lon),
     altitude |-> AltMetres(reading[u].alt_ft),
     heading |-> OrZero(reading[u].heading),
     connected |-> Some(TRUE),
     last_update |-> Some(clock)]

\* variant of U75: the lock kept through the sleep
U75KeepLock(u) ==
    /\ pc[u] = "u75"
    /\ WriteSnapshot(u, LiveUpdate(u))
    /\ Goto(u, "u104")
    /\ UNCHANGED <<requests, libAvail, sm, data_thread, data_lock, tstate, clock, smCreated,
                   status, aq, t, reading, tick, errored, tracked, cw>>

\* 75-84: aircraft_data.update(...) and the lock released
U75(u) ==
    /\ pc[u] = "u75"
    /\ WriteSnapshot(u, LiveUpdate(u))
    /\ data_lock' = None
    /\ Goto(u, "u104")
    /\ UNCHANGED <<requests, libAvail, sm, data_thread, tstate, clock, smCreated,
                   status, aq, t, reading, tick, errored, tracked, cw>>

\* variant of SimUpdate: the position stored first, on its own
SimUpdatePositionOnly(u) ==
    [latitude |-> Some(SimLatitude(t[u])),
     longitude |-> Some(SimLongitude(t[u]))]

\* variant of SimUpdate: the simulated tick also clears connected
SimUpdateClearsConnected(u) ==
    [latitude |-> Some(SimLatitude(t[u])),
     longitude |-> Some(SimLongitude(t[u])),
     altitude |-> Some(SimAltitude),
     heading |-> Some(SimHeading(t[u])),
     connected |-> Some(FALSE)]

\* 89-94: the dict of a simulated tick
SimUpdate(u) ==
    [latitude |-> Some(SimLatitude(t[u])),
     longitude |-> Some(SimLongitude(t[u])),
     altitude |-> Some(SimAltitude),
     heading |-> Some(SimHeading(t[u]))]

\* variant of U88: t advanced before the point is computed
U88AdvanceFirst(u) ==
    /\ pc[u] = "u88"
    /\ IF aq[u] = None
          THEN /\ WriteSnapshot(u, [latitude |-> Some(SimLatitude(t[u] + TStep)),
                                    longitude |-> Some(SimLongitude(t[u] + TStep)),
                                    altitude |-> Some(SimAltitude),
                                    heading |-> Some(SimHeading(t[u] + TStep))])
               /\ t' = [t EXCEPT ![u] = t[u] + TStep]
               /\ Goto(u, "u104")
          ELSE /\ Goto(u, "u100")
               /\ UNCHANGED <<aircraft_data, tag, t>>
    /\ UNCHANGED <<requests, libAvail, sm, data_thread, data_lock, tstate, clock, smCreated,
                   status, aq, reading, tick, errored, tracked, cw>>

\* variant of U88: line 96 dropped, t never advanced
U88FrozenT(u) ==
    /\ pc[u] = "u88"
    /\ IF aq[u] = None
          THEN /\ WriteSnapshot(u, SimUpdate(u))
               /\ Goto(u, "u104")
          ELSE /\ Goto(u, "u100")
               /\ UNCHANGED <<aircraft_data, tag>>
    /\ UNCHANGED <<requests, libAvail, sm, data_thread, data_lock, tstate, clock, smCreated,
                   status, aq, t, reading, tick, errored, tracked, cw>>

\* 86-96: aircraft_data.update(...) without the lock, then `t += 0.05`.  With
\* aq set, center_lat and t were never bound (57-63): NameError, to line 98.
U88(u) ==
    /\ pc[u] = "u88"
    /\ IF aq[u] = None
          THEN /\ WriteSnapshot(u, SimUpdate(u))
               /\ t' = [t EXCEPT ![u] = t[u] + TStep]
               /\ Goto(u, "u104")
          ELSE /\ Goto(u, "u100")
               /\ UNCHANGED <<aircraft_data, tag, t>>
    /\ UNCHANGED <<requests, libAvail, sm, data_thread, data_lock, tstate, clock, smCreated,
                   status, aq, reading, tick, errored, tracked, cw>>

\* 98-100: `except Exception`, `with data_lock:` entered
U100(u) ==
    /\ pc[u] = "u100"
    /\ data_lock = None
    /\ data_lock' = Some(u)
    /\ Goto(u, "u101")
    /\ UNCHANGED <<requests, libAvail, aircraft_data, sm, data_thread, tstate, clock, smCreated,
                   tag, status, aq, t, reading, tick, errored, tracked, cw>>

\* variant of ErrorUpdate: the telemetry reset along with connected
ErrorUpdateZeroes ==
    [latitude |-> Some(0), longitude |-> Some(0), altitude |-> Some(0),
     heading |-> Some(0), connected |-> Some(FALSE)]

\* 101: `aircraft_data["connected"] = False`
ErrorUpdate == [connected |-> Some(FALSE)]

\* variant of U101 (policy A): the loop ends after the write
U101Break(u) ==
    /\ pc[u] = "u101"
    /\ WriteSnapshot(u, ErrorUpdate)
    /\ data_lock' = None
    /\ Goto(u, "done")
    /\ UNCHANGED <<requests, libAvail, sm, data_thread, tstate, clock, smCreated,
                   status, aq, t, reading, tick, errored, tracked, cw>>

\* variant of U101 (policy B): the handle dropped with the write
U101DropHandle(u) ==
    /\ pc[u] = "u101"
    /\ WriteSnapshot(u, ErrorUpdate)
    /\ data_lock' = None
    /\ sm' = None
    /\ Goto(u, "u104")
    /\ UNCHANGED <<requests, libAvail, data_thread, tstate, clock, smCreated,
                   status, aq, t, reading, tick, errored, tracked, cw>>

\* 101: the write and the lock released; nothing else is assigned
U101(u) ==
    /\ pc[u] = "u101"
    /\ WriteSnapshot(u, ErrorUpdate)
    /\ data_lock' = None
    /\ Goto(u, "u104")
    /\ UNCHANGED <<requests, libAvail, sm, data_thread, tstate, clock, smCreated,
                   status, aq, t, reading, tick, errored, tracked, cw>>

\* 104: `time.sleep(1)`, then the next iteration.  The locals of the finished
\* tick are reassigned before they are read again; they are cleared here.
U104(u) ==
    /\ pc[u] = "u104"
    /\ clock' = clock + 1
    /\ reading' = [reading EXCEPT ![u] = NoReading]
    /\ Goto(u, "u66")
    /\ UNCHANGED <<requests, libAvail, aircraft_data, sm, data_thread, data_lock, tstate,
                   smCreated, tag, status, aq, t, tick, errored, tracked, cw>>

update_aircraft_data(u) ==
    \/ U66(u)
    \/ U70(u)
    \/ U74(u)
    \/ U75(u)
    \/ U88(u)
    \/ U100(u)
    \/ U101(u)
    \/ U104(u)

\* ------------------- get_aircraft_data (server.py:12-17) and
\* ------------------- start_simconnect_server (simconnect.py:107-115)
\* Thread.is_alive()
IsAlive(u) == tstate[u] = "alive"

\* variant of NeedsStart: the liveness test dropped
NeedsStartAlways(s) == s = "track"

\* 112: `status == "track" and (data_thread is None or not data_thread.is_alive())`
NeedsStart(s) ==
    /\ s = "track"
    /\ \/ data_thread = None
       \/ ~IsAlive(data_thread[1])

\* variant of StartPc: the `status == "track"` test of line 112 dropped, any
\* status but "connect" may start the thread
StartPcAnyStatus(h, s) ==
    IF s = "connect" THEN EntryPc(h)
    ELSE IF data_thread = None \/ ~IsAlive(data_thread[1]) THEN "s114"
    ELSE "h17"

\* 108-112: where a call with status s goes: into connect_to_simconnect, on
\* to line 114, or back to the route (the function returns None)
StartPc(h, s) ==
    IF s = "connect" THEN EntryPc(h)
    ELSE IF NeedsStart(s) THEN "s114"
    ELSE "h17"

\* server.py:13-14, simconnect.py:107-112: a request arrives with its <status>
\* and start_simconnect_server runs up to its first store
BeginRequest(h, s) ==
    /\ pc[h] = "idle"
    /\ requests < MaxRequests
    /\ requests' = requests + 1
    /\ status' = [status EXCEPT ![h] = s]
    /\ Goto(h, StartPc(h, s))
    /\ tracked' = IF s = "track" /\ ~NeedsStart(s) THEN tracked + 1 ELSE tracked
    /\ UNCHANGED <<libAvail, aircraft_data, sm, data_thread, data_lock, tstate, clock,
                   smCreated, tag, aq, t, reading, tick, errored, cw>>

\* 114: `data_thread = threading.Thread(target=update_aircraft_data, ...)`
S114(h) ==
    /\ pc[h] = "s114"
    /\ \E u \in Updaters :
          /\ tstate[u] = "unborn"
          /\ \A v \in Updaters : v < u => tstate[v] # "unborn"
          /\ tstate' = [tstate EXCEPT ![u] = "created"]
          /\ data_thread' = Some(u)
    /\ Goto(h, "s115")
    /\ UNCHANGED <<requests, libAvail, aircraft_data, sm, data_lock, clock, smCreated, tag,
                   status, aq, t, reading, tick, errored, tracked, cw>>

\* 115: `data_thread.start()` on the Thread the global names now: it begins
\* update_aircraft_data (54-57, into connect_to_simconnect), or, already
\* started, raises RuntimeError out of the route.
S115(h) ==
    /\ pc[h] = "s115"
    /\ LET u == data_thread[1] IN
         IF tstate[u] = "created"
           THEN /\ tstate' = [tstate EXCEPT ![u] = "alive"]
                /\ pc' = [pc EXCEPT ![h] = "h17", ![u] = EntryPc(u)]
                /\ tracked' = tracked + 1
           ELSE /\ Goto(h, "h500")
                /\ UNCHANGED <<tstate, tracked>>
    /\ UNCHANGED <<requests, libAvail, aircraft_data, sm, data_thread, data_lock, clock,
                   smCreated, tag, status, aq, t, reading, tick, errored, cw>>

start_simconnect_server(h) ==
    \/ S114(h)
    \/ S115(h)

\* server.py:17: `return jsonify(simconnect.aircraft_data)` reads the dict in
\* one call; after an exception Flask answers 500 instead.  The request's
\* locals end with it.
Respond(h) ==
    /\ pc[h] \in {"h17", "h500"}
    /\ Goto(h, "idle")
    /\ status' = [status EXCEPT ![h] = NoStatus]
    /\ aq' = [aq EXCEPT ![h] = None]
    /\ cw' = [cw EXCEPT ![h] = FALSE]
    /\ UNCHANGED <<shared, t, reading, tick, errored, tracked>>

get_aircraft_data(h) ==
    \/ start_simconnect_server(h)
    \/ Respond(h)

Next ==
    \/ \E h \in Handlers, s \in Statuses : BeginRequest(h, s)
    \/ \E thr \in Threads : connect_to_simconnect(thr)
    \/ \E u \in Updaters : update_aircraft_data(u)
    \/ \E h \in Handlers : get_aircraft_data(h)

Spec == Init /\ [][Next]_vars

\* Requests one at a time: a request arrives only when no other is in flight.
NoRequestInFlight == \A h \in Handlers : pc[h] = "idle"

NextSeq ==
    \/ \E h \in Handlers, s \in Statuses : NoRequestInFlight /\ BeginRequest(h, s)
    \/ \E thr \in Threads : connect_to_simconnect(thr)
    \/ \E u \in Updaters : update_aircraft_data(u)
    \/ \E h \in Handlers : get_aircraft_data(h)

SpecSeq == Init /\ [][NextSeq]_vars

\* ------------------------------------------------- the simulated flight
\* The state once a single "track" request has been answered and the
\* Updater it started found no live source at line 57 (the library absent,
\* or its constructor raised): one loop, about to begin its first tick.
InitSim ==
    /\ libAvail \in BOOLEAN
    /\ aircraft_data = InitData
    /\ sm = None
    /\ data_thread = Some(101)
    /\ data_lock = None
    /\ tstate = [u \in Updaters |-> IF u = 101 THEN "alive" ELSE "unborn"]
    /\ pc = [thr \in Threads |->
                IF thr \in Handlers THEN "idle" ELSE IF thr = 101 THEN "u66" ELSE "unborn"]
    /\ status = [h \in Handlers |-> NoStatus]
    /\ aq = [thr \in Threads |-> None]
    /\ t = [u \in Updaters |-> 0]
    /\ reading = [u \in Updaters |-> NoReading]
    /\ tick = [u \in Updaters |-> 0]
    /\ clock = 0
    /\ smCreated = 0
    /\ tag = [f \in Fields |-> <<0, 0>>]
    /\ errored = [u \in Updaters |-> FALSE]
    /\ tracked = 1
    /\ cw = [thr \in Threads |-> FALSE]
    /\ requests = 1

\* 66-104 with no request in flight: the loop alone, tick after tick
NextSim ==
    \/ \E u \in Updaters : U66Long(u)
    \/ \E u \in Updaters : U88(u)
    \/ \E u \in Updaters : U104(u)

\* The thread is scheduled and time.sleep(1) returns: a step of the loop
\* that can be taken is eventually taken.
SpecSim == InitSim /\ [][NextSim]_vars /\ WF_vars(NextSim)

\* ----------------------------------------------------------- properties
\* Updaters whose thread has been started: update_aircraft_data entered.
RunningUpdaters == {u \in Updaters : IsAlive(u)}

\* Thread objects constructed at line 114
ThreadsCreated == {u \in Updaters : tstate[u] # "unborn"}

\* C1: under any interleaving of concurrent "track" requests, at most one
\* Updater is ever started (at most one UpdaterTask is Running).
C1_AtMostOneUpdaterRunning == Cardinality(RunningUpdaters) <= 1

\* C3: with requests handled one at a time, the first "track" call starts the
\* one Updater and every later "track" call starts nothing: never more than
\* one Thread is created or running, and exactly one runs once a "track"
\* call has returned.
C3_SequentialStartIdempotent ==
    /\ Cardinality(ThreadsCreated) <= 1
    /\ Cardinality(RunningUpdaters) <= 1
    /\ tracked >= 1 => Cardinality(RunningUpdaters) = 1

\* a second "track" call has returned and still exactly one Updater runs
C3_Witness ==
    /\ tracked >= 2
    /\ Cardinality(RunningUpdaters) = 1
    /\ \E u \in RunningUpdaters : tick[u] >= 1

\* C4: at most one SimConnect instance is ever created process-wide, under
\* any interleaving of connect_to_simconnect calls.
C4_AtMostOneHandleCreated == smCreated <= 1

\* The snapshot a request thread is about to serialise (server.py:17).
Reading(h) == pc[h] = "h17"

\* the Updater whose tick last wrote the numeric fields ran in live mode
LastTickLive ==
    /\ tag["latitude"][1] \in Updaters
    /\ aq[tag["latitude"][1]] # None

\* C2 as stated: in every snapshot a reader obtains, the four numeric fields
\* come from one Updater tick, and after a live tick connected and
\* last_update come from that same tick too.  (A connect call storing true
\* again at line 47 is not held against the claim.)
C2_AllFieldsFromOneTick ==
    \A h \in Handlers :
        Reading(h) =>
            /\ \A f, g \in Numeric : tag[f] = tag[g]
            /\ LastTickLive =>
                 /\ tag["last_update"] = tag["latitude"]
                 /\ \/ tag["connected"] = tag["latitude"]
                    \/ tag["connected"][1] \in Handlers

\* C2 amended: in every snapshot a reader obtains, the four numeric fields
\* come from one Updater tick, and after a live tick last_update comes from
\* that tick too; connected may have been written since, by a failed tick
\* (line 101) or by a connect call (line 47).
C2_NoTornSnapshot ==
    \A h \in Handlers :
        Reading(h) =>
            /\ \A f, g \in Numeric : tag[f] = tag[g]
            /\ LastTickLive => tag["last_update"] = tag["latitude"]

\* a reader is at its read after a second tick has overwritten the first
C2_Witness ==
    \E h \in Handlers :
        /\ Reading(h)
        /\ tag["latitude"][1] \in Updaters
        /\ TicksBegun >= 2
        /\ tag["latitude"][2] = tick[tag["latitude"][1]]
        /\ pc[tag["latitude"][1]] = "u104"

C6_OnlyUpdatersWrite ==
    \A f \in Fields : tag[f][1] \in Updaters \cup {0}

\* C6 amended: the four numeric fields and last_update are written only by
\* Updater threads; a request thread writes only connected, only to true, and
\* only while serving status "connect".
C6_HandlersWriteOnlyConnected ==
    /\ \A f \in Fields \ {"connected"} : tag[f][1] \in Updaters \cup {0}
    /\ tag["connected"][1] \in Handlers => aircraft_data["connected"] = Some(TRUE)
    /\ \A h \in Handlers : cw[h] => status[h] = "connect"

\* a request thread has written connected over an Updater's telemetry
C6_Witness ==
    /\ tag["connected"][1] \in Handlers
    /\ tag["latitude"][1] \in Updaters
    /\ tag["last_update"][1] \in Updaters

\* the reading field behind each numeric snapshot field
ReadingOf(u, f) ==
    CASE f = "latitude" -> reading[u].lat
      [] f = "longitude" -> reading[u].lon
      [] f = "altitude" -> reading[u].alt_ft
      [] f = "heading" -> reading[u].heading

\* the snapshot field f still holds what u's current tick wrote
WroteThisTick(u, f) == pc[u] = "u104" /\ tag[f] = <<u, tick[u]>>

\* C7: the four numeric fields are never null: they start at 0.0 and a live
\* tick writes 0.0 for a field whose query returned null.
C7_NumericAlwaysDefined ==
    /\ \A f \in Numeric : aircraft_data[f] # None
    /\ \A u \in Updaters, f \in Numeric :
          (WroteThisTick(u, f) /\ aq[u] # None /\ ReadingOf(u, f) = None) =>
              aircraft_data[f] = Some(0)

\* a live tick with a null latitude and a non-null longitude has written
C7_Witness ==
    \E u \in Updaters :
        /\ WroteThisTick(u, "latitude")
        /\ aq[u] # None
        /\ reading[u].lat = None /\ reading[u].lon # None
        /\ aircraft_data["latitude"] = Some(0)
        /\ aircraft_data["longitude"] # Some(0)

ConnectReturnedNone(thr) ==
    /\ aq[thr] = None
    /\ IF thr \in Handlers
         THEN pc[thr] = "h17" /\ status[thr] = "connect"
         ELSE pc[thr] \in {"u66", "u88", "u104"}

\* C10: connect_to_simconnect never raises to its caller; a call that
\* returns None has not written the snapshot; with no capability present and
\* only connect requests served, the snapshot keeps its initial value.
C10_ConnectNeverRaises ==
    /\ \A thr \in Threads : pc[thr] # "raised"
    /\ \A thr \in Threads : ConnectReturnedNone(thr) => ~cw[thr]
    /\ (~libAvail /\ ThreadsCreated = {}) => aircraft_data = InitData

\* without the capability a second connect request has returned None
C10_Witness ==
    \E h \in Handlers :
        /\ ~libAvail
        /\ requests >= 2
        /\ ConnectReturnedNone(h)
        /\ ThreadsCreated = {}
        /\ aircraft_data = InitData

\* the status of the request that handler h is serving in a step of h
StatusServed(h) == IF pc[h] = "idle" THEN status'[h] ELSE status[h]

\* C11: only a "track" request can change the Updater thread's state: every
\* step of a "connect" request leaves the stored thread, every thread's
\* lifecycle state and every Updater's position unchanged, and every step of
\* a request with any other status leaves the handle, the thread, the snapshot
\* and the lock unchanged as well.
C11_OnlyTrackTouchesThread ==
    [][\A h \in Handlers :
          (pc'[h] # pc[h] /\ StatusServed(h) # "track") =>
              /\ data_thread' = data_thread
              /\ tstate' = tstate
              /\ \A u \in Updaters : pc'[u] = pc[u] /\ tick'[u] = tick[u]
              /\ StatusServed(h) # "connect" =>
                     /\ sm' = sm
                     /\ smCreated' = smCreated
                     /\ aircraft_data' = aircraft_data
                     /\ tag' = tag
                     /\ data_lock' = data_lock]_vars

\* a connect request has connected and written the snapshot, a request with
\* another status is being answered, and no thread was ever created
C11_Witness ==
    \E h, g \in Handlers :
        /\ pc[h] = "h17" /\ status[h] = "connect" /\ cw[h]
        /\ pc[g] = "h17" /\ status[g] = "other"
        /\ ThreadsCreated = {}

\* Updater u runs in simulated mode and has completed tick[u] >= 1 ticks
SimTicksCompleted(u) ==
    /\ aq[u] = None
    /\ pc[u] \in {"u66", "u104"}
    /\ tick[u] >= 1

\* the position of the snapshot is the point of the circle at parameter x
PositionAt(x) ==
    /\ aircraft_data["latitude"] = Some(SimLatitude(x))
    /\ aircraft_data["longitude"] = Some(SimLongitude(x))

\* the last write of the position is the latest tick of Updater u
PositionFromLatestTick(u) ==
    /\ tag["latitude"] = <<u, tick[u]>>
    /\ tag["longitude"] = <<u, tick[u]>>

\* C12 as stated: in simulated mode after k completed ticks t = 0.05*k and
\* the position in the snapshot is the one computed from that same value
\* 0.05*k.
C12_SnapshotIsPointK ==
    \A u \in Updaters :
        SimTicksCompleted(u) =>
            /\ t[u] = TStep * tick[u]
            /\ PositionFromLatestTick(u) => PositionAt(TStep * tick[u])

\* C12 amended: in simulated mode after k >= 1 completed ticks t = 0.05*k and
\* the position the k-th tick wrote is the one computed from 0.05*(k-1): the
\* point is computed from t first and t advanced after.
C12_SnapshotIsPointBeforeK ==
    \A u \in Updaters :
        SimTicksCompleted(u) =>
            /\ t[u] = TStep * tick[u]
            /\ PositionFromLatestTick(u) => PositionAt(TStep * (tick[u] - 1))

\* a second simulated tick has written the point of parameter 0.05
C12_Witness ==
    \E u \in Updaters :
        /\ SimTicksCompleted(u)
        /\ tick[u] = 2
        /\ PositionFromLatestTick(u)
        /\ PositionAt(TStep)
        /\ ~PositionAt(2 * TStep)

\* InitSim is a state of the program: the concurrent model reaches it
InitSimReached ==
    /\ sm = None
    /\ data_thread = Some(101)
    /\ tstate[101] = "alive" /\ tstate[102] = "unborn"
    /\ pc[101] = "u66" /\ tick[101] = 0
    /\ \A h \in Handlers : pc[h] = "idle"
    /\ aircraft_data = InitData
    /\ requests = 1 /\ tracked = 1
    /\ data_lock = None

\* the parameter the latest completed simulated tick of u computed with
TUsed(u) == t[u] - TStep

\* C13: every heading a simulated tick stores equals (90 + degrees(t)) mod 360
\* and lies in [0, 360).
C13_HeadingIsCompassAngle ==
    \A u \in Updaters :
        (SimTicksCompleted(u) /\ tag["heading"] = <<u, tick[u]>>) =>
            /\ aircraft_data["heading"] = Some((900000 + Degrees(TUsed(u))) % 3600000)
            /\ aircraft_data["heading"][1] >= 0
            /\ aircraft_data["heading"][1] < 3600000

\* the position a read returns once a simulated loop has completed j ticks:
\* the initial one before the first tick, then the point of parameter
\* 0.05*(j-1)
PositionAfter(j) ==
    IF j = 0 THEN <<InitData["latitude"], InitData["longitude"]>>
    ELSE <<Some(SimLatitude(TStep * (j - 1))), Some(SimLongitude(TStep * (j - 1)))>>

PositionNow == <<aircraft_data["latitude"], aircraft_data["longitude"]>>

\* C14: once a track request has started the Updater with no live source,
\* the loop never ends and keeps ticking (up to the tick budget), t grows
\* strictly in every tick, and a read of the position differs from every
\* read made two or more ticks earlier.
C14_SimLoopKeepsMoving ==
    /\ [](\A u \in Updaters : IsAlive(u) => pc[u] \in {"u66", "u88", "u104"})
    /\ [][\A u \in Updaters :
              (pc[u] = "u88" /\ pc'[u] # "u88") => (pc'[u] = "u104" /\ t'[u] > t[u])]_vars
    /\ [](\A u \in Updaters :
              SimTicksCompleted(u) =>
                  /\ PositionNow = PositionAfter(tick[u])
                  /\ \A j \in 0..(tick[u] - 2) : PositionAfter(j) # PositionNow)
    /\ <>(\E u \in Updaters : tick[u] = MaxSimTicks /\ pc[u] = "u66")

\* the loop has gone once round the circle and on: the position is again
\* near, and differs from, the one of the first tick
C14_Witness ==
    \E u \in Updaters :
        /\ SimTicksCompleted(u)
        /\ tick[u] = 127
        /\ PositionNow = PositionAfter(127)
        /\ PositionNow # PositionAfter(1)
        /\ t[u] > TwoPi

\* thread thr is at a `with data_lock:` it cannot enter now
WaitsForLock(thr) == pc[thr] \in {"c46", "u74", "u100"} /\ data_lock # None

\* the statements inside the three `with data_lock:` blocks (47, 75-84, 101)
WritePcs == {"c47", "u75", "u101"}

\* C15 as stated: for every status, a request handler never waits for a
\* lock that an Updater holds.
C15_HandlersNeverWait ==
    \A h \in Handlers : ~(WaitsForLock(h) /\ data_lock[1] \in Updaters)

\* C15 amended: a "track" request or one with another status never comes to
\* the lock, and the read of the snapshot waits for nothing whoever holds the
\* lock; a "connect" request whose connect succeeded takes data_lock at line
\* 46 and may wait there, but only for a holder that is at its single write
\* and releases the lock in its next step.
C15_OnlyConnectWaitsForOneWrite ==
    \A h \in Handlers :
        /\ status[h] \in {"track", "other"} => pc[h] \notin {"c46", "c47"}
        /\ pc[h] = "h17" => ENABLED Respond(h)
        /\ WaitsForLock(h) =>
               /\ status[h] = "connect"
               /\ pc[data_lock[1]] \in WritePcs

\* a connect request waits at line 46 while an Updater is in its live write,
\* and another request is answered meanwhile
C15_Witness ==
    \E h, g \in Handlers : \E u \in Updaters :
        /\ pc[h] = "c46" /\ status[h] = "connect"
        /\ data_lock = Some(u) /\ pc[u] = "u75"
        /\ pc[g] = "h17" /\ status[g] \in {"track", "other"}

\* the labels of the loop body (66-104)
LoopPcs == {"u66", "u70", "u74", "u75", "u88", "u100", "u101", "u104"}

\* C16: the mode of a loop is fixed when it is entered.  A loop whose connect
\* at line 57 returned None is never at a live query or a live or error
\* write, whatever the handle has become since, and has written nothing but
\* the four numeric fields; a loop whose connect succeeded is never at the
\* simulated write and its t is never advanced.
C16_ModeFixedAtLoopEntry ==
    \A u \in Updaters :
        pc[u] \in LoopPcs =>
            /\ aq[u] = None =>
                   /\ pc[u] \in {"u66", "u88", "u104"}
                   /\ ~errored[u]
                   /\ \A f \in Fields : tag[f][1] = u => f \in Numeric
            /\ aq[u] # None =>
                   /\ pc[u] # "u88"
                   /\ t[u] = 0
                   /\ \A f \in Numeric : tag[f][1] = u => tag["last_update"][1] \in Updaters

\* a loop that began without a live source is in its second simulated tick
\* although a connect request has since created the handle
C16_Witness ==
    \E u \in Updaters : \E h \in Handlers :
        /\ aq[u] = None /\ pc[u] = "u88" /\ tick[u] = 2
        /\ sm # None /\ cw[h]

\* C17: the write of a simulated tick (88-95) stores latitude, longitude,
\* altitude and heading and nothing else: connected and last_update keep the
\* value, and the writer, they had before it.
C17_SimTickWritesOnlyNumeric ==
    [][\A u \in Updaters :
          (pc[u] = "u88" /\ pc'[u] = "u104") =>
              /\ aircraft_data'["connected"] = aircraft_data["connected"]
              /\ aircraft_data'["last_update"] = aircraft_data["last_update"]
              /\ tag'["connected"] = tag["connected"]
              /\ tag'["last_update"] = tag["last_update"]
              /\ \A f \in Numeric : tag'[f] = <<u, tick[u]>>]_vars

\* a simulated tick has written over a snapshot that a connect call and a
\* live tick had marked: connected and last_update are still theirs
C17_Witness ==
    \E u \in Updaters :
        /\ aq[u] = None /\ pc[u] = "u104"
        /\ PositionFromLatestTick(u)
        /\ aircraft_data["connected"] = Some(TRUE)
        /\ tag["connected"][1] # u

\* C18: whenever connected is true while an Updater loop is running, that
\* loop is in live mode: connected is never true while the snapshot is fed by
\* the simulated generator.
C18_ConnectedOnlyWhileLive ==
    \A u \in Updaters :
        (pc[u] \in LoopPcs /\ aircraft_data["connected"] = Some(TRUE)) => aq[u] # None

\* C19: when a live query raises, the tick stores nothing on the way to the
\* handler (nothing of this tick is in the snapshot when line 101 is
\* reached), the handler's one write sets connected to false and leaves
\* latitude, longitude, altitude, heading and last_update as they were, and
\* control goes on to the sleep and from there to the next iteration.
C19_ErrorTickOnlyClearsConnected ==
    [][\A u \in Updaters :
          /\ (pc[u] \in {"u70", "u100"} /\ pc'[u] # pc[u] /\ pc'[u] # "u74") =>
                 /\ pc'[u] = IF pc[u] = "u70" THEN "u100" ELSE "u101"
                 /\ aircraft_data' = aircraft_data
                 /\ \A f \in Fields : tag[f] # <<u, tick[u]>>
          /\ (pc[u] = "u101" /\ pc'[u] # "u101") =>
                 /\ pc'[u] = "u104"
                 /\ aircraft_data' = [aircraft_data EXCEPT !["connected"] = Some(FALSE)]
                 /\ \A f \in Fields \ {"connected"} : tag'[f] = tag[f]
          /\ (errored[u] /\ pc[u] = "u104" /\ pc'[u] # "u104") => pc'[u] = "u66"]_vars

\* the second tick of a loop had a read error: connected is false and the
\* telemetry and last_update are those of its first tick
C19_Witness ==
    \E u \in Updaters :
        /\ errored[u] /\ pc[u] = "u104" /\ tick[u] = 2
        /\ tag["connected"] = <<u, 2>>
        /\ aircraft_data["connected"] = Some(FALSE)
        /\ \A f \in Fields \ {"connected"} : tag[f] = <<u, 1>>
        /\ aircraft_data["latitude"] # Some(0)
        /\ aircraft_data["last_update"] # None

\* the next statement of the thread that holds the lock can run
HolderCanStep ==
    LET holder == data_lock[1]
    IN  ENABLED (connect_to_simconnect(holder) \/ update_aircraft_data(holder))

\* C20: data_lock is held only across one field-group write: its holder is
\* at the write of line 47, 75-84 or 101; a thread at the handle
\* construction, the AircraftRequests construction, a live query or the
\* sleep does not hold it; a thread about to acquire it does not hold it
\* already; and the holder can always take its next step, which releases it.
C20_LockHeldOnlyForWrite ==
    /\ data_lock # None => pc[data_lock[1]] \in WritePcs
    /\ \A thr \in Threads :
           pc[thr] \in {"c37", "c44", "u70", "u104"} => data_lock # Some(thr)
    /\ \A thr \in Threads :
           pc[thr] \in {"c46", "u74", "u100"} => data_lock # Some(thr)
    /\ data_lock # None => HolderCanStep

\* a connect request holds the lock at its write while an Updater whose
\* query raised waits to enter the handler's block
C20_Witness ==
    \E h \in Handlers : \E u \in Updaters :
        /\ data_lock = Some(h) /\ pc[h] = "c47"
        /\ pc[u] = "u100" /\ WaitsForLock(u)

====
